---- MODULE Spec2Model ----
(***************************************************************************)
(* A model of brixmadine.py: the wall refiner (_levrefine), the line and   *)
(* polygon rasterizers (_gettiles, _tilepolygon), the plate grid builder   *)
(* (dfmap) and the brick packer (brickify).                                *)
(*                                                                         *)
(* Numbers.  The program computes with floats.  The model uses integers:   *)
(*   - level coordinates and altitudes are in hundredths of a DF unit,     *)
(*   - stud coordinates and heights are in thousandths of a stud (dfmap    *)
(*     rounds them to three decimals),                                     *)
(*   - part centres are stored doubled (x + partx / 2 is kept as           *)
(*     2 * x + partx).                                                     *)
(* Arithmetic is exact; the rounding error of the floats is not modelled.  *)
(* The levels of the model have altitudes of whole plates and walls lower  *)
(* than four plates, and its segments have end points of whole             *)
(* thousandths: on these the exact results are those of the floats.        *)
(* Textures are images of one pixel, so every texture position is (0, 0).  *)
(* A Python set of tiles is iterated in ascending or in descending order.  *)
(***************************************************************************)
EXTENDS Integers, Sequences, FiniteSets, TLC

VARIABLES
  pc,                \* where the program is
  prioritylarge,     \* dfmap: the sector-priority flag
  generateceilings,  \* dfmap: whether ceilings are built
  directrgb,         \* dfmap: direct RGB colours instead of palette colours
  tileorder,         \* the order in which a set of tiles is iterated
  palette,           \* the global palette _colorparse loaded
  targcol,           \* _matchcolor: the RGB triplet to match
  matched,           \* _matchcolor: the colour returned
  isfile,            \* the paths at which os.path.isfile finds a file
  palfile,           \* dfmap: the palette path ("" when none is given)
  status,            \* the process: running, exited with status 1, or dfmap returned
  stdout,            \* the lines printed
  parsed,            \* history: _levparse was called
  written,           \* history: the output file was written
  inf,               \* _partparse: the lines of the catalog file, split
  pbot,              \* dfmap: the bottom altitude of the wall in work
  ptop,              \* dfmap: the top altitude of the wall in work
  level,             \* the sectors _levparse returned (the input of _levrefine)
  lev,               \* the list of sectors _levrefine rewrites in place
  scid,              \* _levrefine: the index of the sector in work (from 0)
  p1,                \* _gettiles: the start point
  p2,                \* _gettiles: the end point
  points,            \* _gettiles: the set returned
  polygon,           \* _tilepolygon: the list of walls
  polytiles,         \* _tilepolygon: the list of tiles returned
  legoplates,        \* dfmap: the plate list
  origin,            \* history: for each plate, the pass that appended it
  ctr,               \* dfmap: the index of the sector in work (from 0)
  parts,             \* the part catalog
  grid,              \* brickify: the plate list, heights converted
  map,               \* brickify: the dict from cells to colours
  assembly,          \* brickify: the placed parts
  counter,           \* brickify: the number of catalog parts taken up
  keys               \* brickify: what is left of list(map.keys())

colorVars == <<palette, targcol, matched>>

runVars == <<isfile, palfile, status, stdout, parsed, written>>

wallVars == <<pbot, ptop>>

cfgVars ==
  <<prioritylarge, generateceilings, directrgb, tileorder, colorVars, runVars, inf, wallVars>>

levVars == <<level, lev, scid>>

tileVars == <<p1, p2, points, polygon, polytiles>>

plateVars == <<legoplates, origin, ctr>>

brickVars == <<parts, grid, map, assembly, counter, keys>>

vars == <<pc, cfgVars, levVars, tileVars, plateVars, brickVars>>

(***************************************************************************)
(* Program constants.                                                      *)
(***************************************************************************)
\* LEGOPLATEHEIGHT = 0.4 studs, in thousandths of a stud
LEGOPLATEHEIGHT == 400

\* REDUCTION = 0.8, in tenths
REDUCTION == 8

\* dfmap's default xyscale: DF units per stud, horizontally
xyscale == 2

\* dfmap's default zscale = 1.8 DF units per stud vertically, in tenths
zscale == 18

(***************************************************************************)
(* Bounds of the model.                                                    *)
(***************************************************************************)
\* the packer's input plates lie in the first MaxCells cells of a region
MaxCells == 6

\* colour identifiers
Colors == {1, 2}

\* a level has at most MaxSectors sectors
MaxSectors == 2

(***************************************************************************)
(* The values of the variables a specification does not use.               *)
(***************************************************************************)
NoWall == pbot = 0 /\ ptop = 0

NoRun ==
  /\ NoWall
  /\ inf = <<>>
  /\ isfile = {}
  /\ palfile = ""
  /\ status = "running"
  /\ stdout = <<>>
  /\ parsed = FALSE
  /\ written = FALSE

NoConfig ==
  /\ NoRun
  /\ prioritylarge = TRUE
  /\ generateceilings = TRUE
  /\ directrgb = FALSE
  /\ tileorder = "ascending"
  /\ palette = <<>>
  /\ targcol = <<>>
  /\ matched = "none"

NoLevel == level = <<>> /\ lev = <<>> /\ scid = 0

NoSegment ==
  /\ p1 = <<0, 0>> /\ p2 = <<0, 0>> /\ points = {}
  /\ polygon = <<>> /\ polytiles = <<>>

NoPlates == legoplates = <<>> /\ origin = <<>> /\ ctr = 0

NoPacking ==
  /\ parts = <<>>
  /\ grid = <<>>
  /\ map = <<>>
  /\ assembly = <<>>
  /\ counter = 0
  /\ keys = <<>>

(***************************************************************************)
(* Arithmetic helpers.                                                     *)
(***************************************************************************)
\* round(n / d) for d > 0: Python 3 rounds halves to the even neighbour
RoundDiv(n, d) ==
  LET q == n \div d
      r == n % d
  IN  IF 2 * r < d THEN q
      ELSE IF 2 * r > d THEN q + 1
      ELSE IF q % 2 = 0 THEN q ELSE q + 1

Reverse(s) == [i \in 1..Len(s) |-> s[Len(s) + 1 - i]]

(***************************************************************************)
(* _partparse: the catalog rows (x, y, z, dat), each non-square row also   *)
(* rotated, sorted by three stable descending sorts.                       *)
(***************************************************************************)
RECURSIVE InsertDesc(_, _, _)
InsertDesc(s, e, k) ==
  IF s = <<>> THEN <<e>>
  ELSE IF Head(s)[k] >= e[k] THEN <<Head(s)>> \o InsertDesc(Tail(s), e, k)
  ELSE <<e>> \o s

\* list.sort(key=lambda k: k[idx], reverse=True): stable
RECURSIVE SortDesc(_, _)
SortDesc(s, k) ==
  IF s = <<>> THEN <<>>
  ELSE InsertDesc(SortDesc(SubSeq(s, 1, Len(s) - 1), k), s[Len(s)], k)

RECURSIVE WithRotations(_)
WithRotations(rows) ==
  IF rows = <<>> THEN <<>>
  ELSE LET r == Head(rows)
       IN  (IF r[1] # r[2] THEN <<r, <<r[2], r[1], r[3], r[4]>> >> ELSE <<r>>)
           \o WithRotations(Tail(rows))

\* 'if not e.startswith("#")': a comment line is the list of one field
Uncomment(lines) == SelectSeq(lines, LAMBDA l : Len(l) = 4)

\* the catalog sorted by height only
PartparseByHeight(rows) == SortDesc(WithRotations(rows), 3)

\* the three sorts, the last one deciding first
_partparse(rows) == SortDesc(SortDesc(SortDesc(WithRotations(rows), 1), 2), 3)

(***************************************************************************)
(* Sectors and walls are the positional lists of the source; position k of *)
(* the source is position k + 1 here.                                      *)
(*   raw wall:     <<start, end, midtx, midx, midy, toptx, topx, topy,     *)
(*                   bottx, botx, boty, adjoin>>                           *)
(*   sector:       <<walls, flrtex, flrx, flry, ceiltex, ceilx, ceily,     *)
(*                   flralt, ceilalt, opensky, openflr, nowalls>>, and     *)
(*                 _levrefine appends area and originalwalls               *)
(*   refined wall: <<start, end, bottom, top, texture, offx, offy,         *)
(*                   topanchor>>                                           *)
(***************************************************************************)
Abs(n) == IF n < 0 THEN 0 - n ELSE n

RECURSIVE SumSeq(_)
SumSeq(s) == IF s = <<>> THEN 0 ELSE Head(s) + SumSeq(Tail(s))

\* _polygonarea(crd), doubled (the source halves the sum)
_polygonarea(crd) ==
  SumSeq([c \in 1..Len(crd) |->
            LET n == IF c = Len(crd) THEN 1 ELSE c + 1
            IN  crd[c][1] * crd[n][2] - crd[c][2] * crd[n][1]])

\* s[i] of a Python list: an index from -len(s) to len(s) - 1 is accepted,
\* a negative one counts from the end; any other raises IndexError
PyInRange(s, i) == i >= 0 - Len(s) /\ i < Len(s)

PyItem(s, i) == IF i >= 0 THEN s[i + 1] ELSE s[Len(s) + i + 1]

\* the wall of an unadjoined raw wall: the mid texture, anchored from the bottom
MidWall(sector, wall) ==
  << <<wall[1], wall[2], sector[8], sector[9], wall[3], wall[4], wall[5], FALSE>> >>

\* a refiner that takes an equal floor for a step
StepWallOrEqual(sector, wall, adflr) ==
  IF adflr >= sector[8]
  THEN << <<wall[1], wall[2], sector[8], adflr, wall[9], wall[10], wall[11], FALSE>> >>
  ELSE <<>>

\* if adflr > sector[7]: the step on our side, the bottom texture
StepWall(sector, wall, adflr) ==
  IF adflr > sector[8]
  THEN << <<wall[1], wall[2], sector[8], adflr, wall[9], wall[10], wall[11], FALSE>> >>
  ELSE <<>>

\* a refiner with the comparison of the ceilings turned around
OverhangWallTurned(sector, wall, adceil) ==
  IF adceil > sector[9]
  THEN << <<wall[1], wall[2], adceil, sector[9], wall[6], wall[7], wall[8], TRUE>> >>
  ELSE <<>>

\* if adceil < sector[8]: the overhang on our side, the top texture, anchored
\* from the top
OverhangWall(sector, wall, adceil) ==
  IF adceil < sector[9]
  THEN << <<wall[1], wall[2], adceil, sector[9], wall[6], wall[7], wall[8], TRUE>> >>
  ELSE <<>>

\* the refined walls of one raw wall
RefineWall(lv, sector, wall) ==
  IF wall[12] = -1
  THEN MidWall(sector, wall)
  ELSE LET adsect == wall[12]
           adflr == PyItem(lv, adsect)[8]
           adceil == PyItem(lv, adsect)[9]
       IN  StepWall(sector, wall, adflr) \o OverhangWall(sector, wall, adceil)

RECURSIVE RefineWalls(_, _, _)
RefineWalls(lv, sector, walls) ==
  IF walls = <<>> THEN <<>>
  ELSE RefineWall(lv, sector, Head(walls)) \o RefineWalls(lv, sector, Tail(walls))

\* _levrefine: one round of 'for scid, sector in enumerate(lev)', or the return
Levrefine ==
  /\ pc = "refine"
  /\ IF scid >= Len(lev)
     THEN /\ pc' = "sort"
          /\ UNCHANGED <<lev, scid>>
     ELSE LET sector == lev[scid + 1]
              walls == sector[1]
              coords == [i \in 1..Len(walls) |-> walls[i][1]]
              sarea == Abs(_polygonarea(coords))
              origwalls == [i \in 1..Len(walls) |-> <<walls[i][1], walls[i][2]>>]
          IN  IF \E i \in 1..Len(walls) : walls[i][12] # -1 /\ ~PyInRange(lev, walls[i][12])
              THEN \* lev[adsect] raises IndexError
                   /\ pc' = "error"
                   /\ UNCHANGED <<lev, scid>>
              ELSE /\ lev' = [lev EXCEPT ![scid + 1] =
                                 <<RefineWalls(lev, sector, walls)>> \o Tail(sector) \o <<sarea, origwalls>>]
                   /\ scid' = scid + 1
                   /\ pc' = "refine"
  /\ UNCHANGED <<level, cfgVars, tileVars, plateVars, brickVars>>

(***************************************************************************)
(* The dict of brickify, 'map': a sequence of <<key, value>> pairs in      *)
(* insertion order (the order list(map.keys()) returns).                   *)
(***************************************************************************)
\* a key list that leaves out the first key
KeysButFirst(m) == [i \in 1..(Len(m) - 1) |-> m[i + 1][1]]

\* list(map.keys())
Keys(m) == [i \in 1..Len(m) |-> m[i][1]]

KeySet(m) == {m[i][1] : i \in 1..Len(m)}

Get(m, k) == m[CHOOSE i \in 1..Len(m) : m[i][1] = k][2]

\* a dict in which the first value written to a key stays
PutFirst(m, k, v) ==
  IF k \in KeySet(m) THEN m ELSE Append(m, <<k, v>>)

\* map[k] = v: a present key keeps its position
Put(m, k, v) ==
  IF k \in KeySet(m)
  THEN [m EXCEPT ![CHOOSE i \in 1..Len(m) : m[i][1] = k] = <<k, v>>]
  ELSE Append(m, <<k, v>>)

\* del map[c] for every c of cs
DelAll(m, cs) == SelectSeq(m, LAMBDA e : e[1] \notin cs)

(***************************************************************************)
(* brickify                                                                *)
(***************************************************************************)
\* round(h / pltheight)
ToPlates(h) == RoundDiv(h, LEGOPLATEHEIGHT)

\* grid = [(x, y, round(h / pltheight), color) for x, y, h, color in grid]
ConvertHeights(g) == [i \in 1..Len(g) |-> <<g[i][1], g[i][2], ToPlates(g[i][3]), g[i][4]>>]

\* the writes of a part of the grid, in its order: those of its first half,
\* and on their result those of its second half
RECURSIVE PutAll(_, _)
PutAll(m, g) ==
  IF g = <<>> THEN m
  ELSE IF Len(g) = 1 THEN Put(m, <<g[1][1], g[1][2], g[1][3]>>, g[1][4])
  ELSE CHOOSE r \in {PutAll(first, SubSeq(g, Len(g) \div 2 + 1, Len(g))) :
                       first \in {PutAll(m, SubSeq(g, 1, Len(g) \div 2))}} : TRUE

\* map = dict(); for x, y, h, color in grid: map[(x, y, h)] = color
BuildMap(g) == PutAll(<<>>, g)

\* coords: the cells a part of size (partx, party, partz) covers from (x, y, h)
Coords(x, y, h, partx, party, partz) ==
  {<<cx, cy, cz>> : cx \in x..(x + partx - 1), cy \in y..(y + party - 1), cz \in h..(h + partz - 1)}

\* a check that only looks for the cells, not at their colours
AllPresent(m, coords, ccolor) ==
  \A c \in coords : c \in KeySet(m)

\* all(check): every cell of coords is in the map with the searched colour
AllCheck(m, coords, ccolor) ==
  \A c \in coords : c \in KeySet(m) /\ Get(m, c) = ccolor

\* a centre without the plate added for a 3-plate-high brick
CentreUnshifted(x, y, h, partx, party, partz) ==
  <<2 * x + partx, 2 * y + party, 2 * h + partz>>

\* the centre of the part, doubled; a 3-plate-high brick is one plate higher
Centre(x, y, h, partx, party, partz) ==
  <<2 * x + partx, 2 * y + party, 2 * h + partz + (IF partz = 3 THEN 2 ELSE 0)>>

\* a packer that leaves the cells of the part in the map
RemoveNothing(m, coords) == m

\* a packer that deletes only one cell of the part
RemoveOneCell(m, coords) == DelAll(m, {CHOOSE c \in coords : TRUE})

\* for x, y, h in coords: del map[(x, y, h)]
Remove(m, coords) == DelAll(m, coords)

\* brickify is entered: heights are converted, the dict is built
BrickifyBegin ==
  /\ pc = "brickify"
  /\ IF grid = <<>>
     THEN \* min() of an empty list raises ValueError
          /\ pc' = "error"
          /\ UNCHANGED <<grid, map, assembly, counter, keys>>
     ELSE /\ grid' = ConvertHeights(grid)
          /\ map' = BuildMap(ConvertHeights(grid))
          /\ assembly' = <<>>
          /\ counter' = 0
          /\ keys' = <<>>
          /\ pc' = "parts"
  /\ UNCHANGED <<parts, cfgVars, levVars, tileVars, plateVars>>

\* for partx, party, partz, partdat in parts: the next part, or the return
BrickifyPart ==
  /\ pc = "parts"
  /\ IF counter < Len(parts)
     THEN /\ counter' = counter + 1
          /\ keys' = Keys(map)
          /\ pc' = "cells"
     ELSE /\ pc' = "done"
          /\ UNCHANGED <<counter, keys>>
  /\ UNCHANGED <<parts, grid, map, assembly>>
  /\ UNCHANGED <<cfgVars, levVars, tileVars, plateVars>>

\* for x, y, h in list(map.keys()): one candidate anchor
BrickifyCell ==
  /\ pc = "cells"
  /\ IF keys = <<>>
     THEN /\ pc' = "parts"
          /\ UNCHANGED <<keys, map, assembly>>
     ELSE LET k == Head(keys)
              part == parts[counter]
              coords == Coords(k[1], k[2], k[3], part[1], part[2], part[3])
          IN  /\ keys' = Tail(keys)
              /\ pc' = "cells"
              /\ IF k \notin KeySet(map)
                 THEN UNCHANGED <<map, assembly>>
                 ELSE LET ccolor == Get(map, k)
                      IN  IF ~AllCheck(map, coords, ccolor)
                          THEN UNCHANGED <<map, assembly>>
                          ELSE /\ assembly' = Append(assembly,
                                       Centre(k[1], k[2], k[3], part[1], part[2], part[3])
                                         \o <<part[4], ccolor, part[2] > part[1]>>)
                               /\ map' = Remove(map, coords)
  /\ UNCHANGED <<parts, grid, counter>>
  /\ UNCHANGED <<cfgVars, levVars, tileVars, plateVars>>

(***************************************************************************)
(* The packer on its own: any plate list of the bounded region, any of the *)
(* catalogs.                                                               *)
(***************************************************************************)
\* the i-th cell of the region: a 2 by 2 layer at level 0, then towers of
\* two more levels above its cells
RegionCell(i) ==
  IF i <= 4 THEN <<(i - 1) % 2, (i - 1) \div 2, 0>>
  ELSE LET j == i - 5
           t == j \div 2
       IN  <<t % 2, (t \div 2) % 2, 1 + (j % 2) + 2 * (t \div 4)>>

CellSeq == [i \in 1..MaxCells |-> RegionCell(i)]

CellSet == {CellSeq[i] : i \in 1..Len(CellSeq)}

\* a height in studs (thousandths) that rounds to plate level l
RawHeight(l) == IF l = 0 THEN 0 ELSE LEGOPLATEHEIGHT * l - 80

\* another height that rounds to the same level
RawHeightAlt(l) == LEGOPLATEHEIGHT * l + 160

\* the plates of a colouring (0: no plate), in the order of cells
RECURSIVE PlatesOf(_, _)
PlatesOf(cells, col) ==
  IF cells = <<>> THEN <<>>
  ELSE LET c == Head(cells)
       IN  (IF col[c] = 0 THEN <<>> ELSE << <<c[1], c[2], RawHeight(c[3]), col[c]>> >>)
           \o PlatesOf(Tail(cells), col)

Colourings == [CellSet -> Colors \cup {0}]

\* a plate written again at the end of the list, at a cell of the region
ExtraPlates == {<<0, 0, RawHeightAlt(0), 2>>, <<0, 0, RawHeightAlt(1), 1>>}

PlateLists ==
  {PlatesOf(CellSeq, col) : col \in Colourings}
    \cup {PlatesOf(Reverse(CellSeq), col) : col \in Colourings}
    \cup {PlatesOf(CellSeq, col) \o <<e>> : col \in Colourings, e \in ExtraPlates}

\* catalog files: rows width, length, height, part identifier
CatalogRows ==
  { << <<1, 1, 1, "3024">>, <<1, 2, 1, "3023">>, <<2, 2, 1, "3022">>, <<1, 1, 3, "3005">> >>,
    << <<2, 1, 1, "3023">>, <<1, 1, 3, "3005">> >> }

\* the catalogs _partparse makes of them, and one that is not sorted
Catalogs ==
  {_partparse(rows) : rows \in CatalogRows}
    \cup { << <<1, 1, 1, "3024">>, <<2, 1, 1, "3023">>, <<1, 2, 1, "3023">> >> }

InitBrick ==
  /\ legoplates \in PlateLists
  /\ parts \in Catalogs
  /\ grid = legoplates
  /\ map = <<>>
  /\ assembly = <<>>
  /\ counter = 0
  /\ keys = <<>>
  /\ pc = "brickify"
  /\ origin = <<>>
  /\ ctr = 0
  /\ NoConfig
  /\ NoLevel
  /\ NoSegment

NextBrick == BrickifyBegin \/ BrickifyPart \/ BrickifyCell

SpecBrick == InitBrick /\ [][NextBrick]_vars

(***************************************************************************)
(* Properties of the packer.                                               *)
(***************************************************************************)
\* the catalog has a 1 x 1 x 1 entry
HasUnitPart == \E i \in 1..Len(parts) : parts[i][1] = 1 /\ parts[i][2] = 1 /\ parts[i][3] = 1

\* the catalog entry of a placed part, found by its identifier and orientation
EntryOf(a) == parts[CHOOSE i \in 1..Len(parts) : parts[i][4] = a[4] /\ (parts[i][2] > parts[i][1]) = a[6]]

\* the cells of a placed part: its anchor cell, recovered from the recorded
\* centre, extended by the entry's width, length and height
Footprint(a) ==
  LET p == EntryOf(a)
  IN  Coords((a[1] - p[1]) \div 2, (a[2] - p[2]) \div 2,
             (a[3] - p[3] - (IF p[3] = 3 THEN 2 ELSE 0)) \div 2, p[1], p[2], p[3])

\* the cells (x, y, discrete height) of the input plates
InputCells == {<<legoplates[i][1], legoplates[i][2], ToPlates(legoplates[i][3])>> : i \in 1..Len(legoplates)}

\* C1: when brickify has returned and the catalog has a 1x1x1 entry, the
\* footprints of the placed parts are pairwise disjoint and their union is
\* exactly the set of cells of the input plates.
C1_Coverage ==
  (pc = "done" /\ HasUnitPart) =>
     /\ \A i, j \in 1..Len(assembly) :
           i # j => Footprint(assembly[i]) \cap Footprint(assembly[j]) = {}
     /\ UNION {Footprint(assembly[i]) : i \in 1..Len(assembly)} = InputCells

\* a returned run that placed a larger part and a unit part, from a plate
\* list that writes a cell twice
C1_Witness ==
  /\ pc = "done"
  /\ HasUnitPart
  /\ \E i \in 1..Len(assembly) : Cardinality(Footprint(assembly[i])) >= 2
  /\ \E i \in 1..Len(assembly) : Cardinality(Footprint(assembly[i])) = 1
  /\ Len(legoplates) > Cardinality(InputCells)

\* C2: whenever a part is placed, every cell of its footprint is in the map
\* at that moment and holds the colour the part records (the anchor's).
C2_Monochrome ==
  [][assembly' # assembly =>
       /\ Len(assembly') = Len(assembly) + 1
       /\ LET a == assembly'[Len(assembly')]
          IN  \A c \in Footprint(a) : c \in KeySet(map) /\ Get(map, c) = a[5]]_vars

\* a part of several cells has just been placed while cells of another
\* colour are in the map
C2_Witness ==
  /\ pc = "cells"
  /\ assembly # <<>>
  /\ LET a == assembly[Len(assembly)]
     IN  /\ Cardinality(Footprint(a)) >= 2
         /\ Footprint(a) \cap KeySet(map) = {}
         /\ \E i \in 1..Len(map) : map[i][2] # a[5]

(***************************************************************************)
(* The refiner on its own: levels of up to MaxSectors triangular sectors,  *)
(* any altitudes, the first wall of each with any adjoin reference.        *)
(***************************************************************************)
RawWall(a, b, adjoin) == <<a, b, "MID", 0, 0, "TOP", 10, 20, "BOT", 30, 40, adjoin>>

RawSector(walls, flralt, ceilalt, opensky, openflr, nowalls) ==
  <<walls, "FLR", 0, 0, "CEIL", 0, 0, flralt, ceilalt, opensky, openflr, nowalls>>

TriangleWalls(adjoin) ==
  << RawWall(<<0, 0>>, <<400, 0>>, adjoin),
     RawWall(<<400, 0>>, <<0, 400>>, -1),
     RawWall(<<0, 400>>, <<0, 0>>, -1) >>

Altitudes == {0, 72, 144}

RefineSectors ==
  {RawSector(TriangleWalls(ad), f, c, FALSE, FALSE, FALSE) :
     ad \in (0 - 2)..MaxSectors, f \in Altitudes \ {144}, c \in Altitudes}

RefineLevels == UNION {[1..n -> RefineSectors] : n \in 1..MaxSectors}

InitRefine ==
  /\ level \in RefineLevels
  /\ lev = level
  /\ scid = 0
  /\ pc = "refine"
  /\ NoConfig
  /\ NoSegment
  /\ NoPlates
  /\ NoPacking

NextRefine == Levrefine

SpecRefine == InitRefine /\ [][NextRefine]_vars

(***************************************************************************)
(* Properties of the refiner.                                              *)
(***************************************************************************)
\* every adjoin reference is 'none' or the index of a sector
AdjoinsInRange(lv) ==
  \A i \in 1..Len(lv) : \A k \in 1..Len(lv[i][1]) :
     lv[i][1][k][12] = -1 \/ lv[i][1][k][12] \in 0..(Len(lv) - 1)

\* the refined walls of sector i made from its raw wall k (the walls of a
\* sector differ in their end points)
RefinedOf(i, k) ==
  SelectSeq(lev[i][1], LAMBDA r : r[1] = level[i][1][k][1] /\ r[2] = level[i][1][k][2])

\* what the rule asks of raw wall w of sector s in level lv
Expected(lv, s, w) ==
  IF w[12] = -1
  THEN << <<w[1], w[2], s[8], s[9], w[3], w[4], w[5], FALSE>> >>
  ELSE LET far == lv[w[12] + 1]
       IN  (IF far[8] > s[8]
            THEN << <<w[1], w[2], s[8], far[8], w[9], w[10], w[11], FALSE>> >> ELSE <<>>)
           \o (IF far[9] < s[9]
               THEN << <<w[1], w[2], far[9], s[9], w[6], w[7], w[8], TRUE>> >> ELSE <<>>)

\* C5: once a level whose adjoin references are in range is refined, every
\* raw wall of every sector has given exactly the walls of the rule: one mid
\* wall if unadjoined; a bottom-texture wall iff the far floor is higher, a
\* top-texture wall anchored from the top iff the far ceiling is lower.
C5_RefineRule ==
  (pc = "sort" /\ AdjoinsInRange(level)) =>
     \A i \in 1..Len(level) : \A k \in 1..Len(level[i][1]) :
        RefinedOf(i, k) = Expected(level, level[i], level[i][1][k])

\* a refined level with a wall that gave two walls, a wall adjoined to
\* another sector that gave none, and an unadjoined wall
C5_Witness ==
  /\ pc = "sort"
  /\ AdjoinsInRange(level)
  /\ \E i \in 1..Len(level) : Len(RefinedOf(i, 1)) = 2
  /\ \E i \in 1..Len(level) :
        /\ level[i][1][1][12] \in 0..(Len(level) - 1)
        /\ level[i][1][1][12] # i - 1
        /\ Len(RefinedOf(i, 1)) = 0
  /\ \E i \in 1..Len(level) : Len(RefinedOf(i, 2)) = 1

\* C6: a level with an adjoin reference that is neither 'none' nor the
\* index of a sector is never refined to the end.
C6_AdjoinFatal == ~AdjoinsInRange(level) => pc # "sort"

\* every sector's ceiling is at or above its floor
CeilingsAboveFloors(lv) == \A i \in 1..Len(lv) : lv[i][9] >= lv[i][8]

\* the sectors _levrefine has rewritten so far
Refined == {i \in 1..Len(lev) : Len(lev[i]) = 14}

\* C7: in a level whose ceilings are at or above the floors, every refined
\* wall has its top at or above its bottom.
C7_TopAboveBottom ==
  CeilingsAboveFloors(level) =>
     \A i \in Refined : \A k \in 1..Len(lev[i][1]) : lev[i][1][k][4] >= lev[i][1][k][3]

\* a refined level with a step wall, an overhang wall and a mid wall
C7_Witness ==
  /\ pc = "sort"
  /\ CeilingsAboveFloors(level)
  /\ \E i \in Refined : \E k \in 1..Len(lev[i][1]) : lev[i][1][k][5] = "BOT"
  /\ \E i \in Refined : \E k \in 1..Len(lev[i][1]) : lev[i][1][k][5] = "TOP"
  /\ \E i \in Refined : \E k \in 1..Len(lev[i][1]) : lev[i][1][k][5] = "MID"

\* ---------------------------------------------------------------------
\* _gettiles: the cells under a line.  Coordinates are thousandths of a
\* stud.  The function is computed in exact integer arithmetic: a sample
\* p + e*step is floor- or ceiling-bounded by the integer part of
\* 20*e*xs/length, which decides the integer part of the sample whenever
\* the exact sample is not itself an integer number of studs.

\* sampling step of the line, in thousandths of a stud
TILINGSTEPS == 20

\* int(): the integer part of v thousandths, truncated towards zero
Trunc(v) == IF v >= 0 THEN v \div 1000 ELSE 0 - ((0 - v) \div 1000)

RECURSIVE GCD(_, _)
GCD(a, b) == IF b = 0 THEN a ELSE GCD(b, a % b)

RECURSIVE ISqrtIn(_, _, _)
ISqrtIn(n, lo, hi) ==
  IF lo = hi THEN lo
  ELSE LET mid == (lo + hi + 1) \div 2
       IN  IF mid * mid <= n THEN ISqrtIn(n, mid, hi) ELSE ISqrtIn(n, lo, mid - 1)

\* the integer part of the square root of n
ISqrt(n) == ISqrtIn(n, 0, IF n < 46340 THEN n ELSE 46340)

\* int(p + num / sqrt(L)) for p in thousandths; m is the integer part of
\* |num| / sqrt(L)
SampleCoord(p, num, L) ==
  LET s     == ISqrt(L)
      m     == IF s * s = L THEN Abs(num) \div s ELSE ISqrt((num * num) \div L)
      exact == m * m * L = num * num
      fl    == IF num >= 0 THEN m ELSE IF exact THEN 0 - m ELSE 0 - m - 1
      ce    == IF num >= 0 THEN (IF exact THEN m ELSE m + 1) ELSE 0 - m
  IN  IF p + fl >= 0 THEN (p + fl) \div 1000 ELSE 0 - ((0 - (p + ce)) \div 1000)

_gettiles(a, b) ==
  LET xs == b[1] - a[1]
      ys == b[2] - a[2]
      L  == xs * xs + ys * ys
  IN  IF L < 100
      THEN {<<Trunc(a[1]), Trunc(a[2])>>}
      ELSE LET n  == IF L < TILINGSTEPS * TILINGSTEPS THEN 1
                     ELSE ISqrt(L \div (TILINGSTEPS * TILINGSTEPS))
               g  == GCD(Abs(xs), Abs(ys))
               da == xs \div g
               db == ys \div g
               Lr == da * da + db * db
           IN  {<<SampleCoord(a[1], TILINGSTEPS * e * da, Lr),
                  SampleCoord(a[2], TILINGSTEPS * e * db, Lr)>> : e \in 0..(n - 1)}
               \cup {<<Trunc(b[1]), Trunc(b[2])>>}

\* one call of _gettiles on the segment (p1, p2)
Gettiles ==
  /\ pc = "gettiles"
  /\ points' = _gettiles(p1, p2)
  /\ pc' = "tiled"
  /\ UNCHANGED <<p1, p2, polygon, polytiles, cfgVars, levVars, plateVars, brickVars>>

\* end points on a lattice of three quarters of a stud, HalfSpan steps
\* either side of the origin
HalfSpan == 2
LatticePoints ==
  {<<750 * i, 750 * j>> : i \in (0 - HalfSpan)..HalfSpan, j \in (0 - HalfSpan)..HalfSpan}

\* end points a few thousandths around a cell corner, a negative point and
\* the origin
ShortOffsets == {-30, -6, 0, 6}
ShortBases == {<<1000, 0>>, <<-1000, -500>>, <<0, 0>>}
ShortPoints(base) == {<<base[1] + dx, base[2] + dy>> : dx \in ShortOffsets, dy \in ShortOffsets}

Segments ==
  (LatticePoints \X LatticePoints)
  \cup UNION {ShortPoints(base) \X ShortPoints(base) : base \in ShortBases}

InitTiles ==
  /\ pc = "gettiles"
  /\ \E sg \in Segments : p1 = sg[1] /\ p2 = sg[2]
  /\ points = {}
  /\ polygon = <<>> /\ polytiles = <<>>
  /\ NoConfig /\ NoLevel /\ NoPlates /\ NoPacking

NextTiles == Gettiles

SpecTiles == InitTiles /\ [][NextTiles]_vars

\* the integer-floor cell holding a point
FloorCell(p) == <<p[1] \div 1000, p[2] \div 1000>>

\* the cell the code takes a point to be in
TruncCell(p) == <<Trunc(p[1]), Trunc(p[2])>>

\* the segment is shorter than the epsilon of a hundredth of a stud
Degenerate ==
  (p2[1] - p1[1]) * (p2[1] - p1[1]) + (p2[2] - p1[2]) * (p2[2] - p1[2]) < 100

\* C9: the tiling of a segment shorter than the epsilon is exactly the
\* integer-floor cell of its start point, negative coordinates included.
C9_DegenerateFloorCell ==
  (pc = "tiled" /\ Degenerate) => points = {FloorCell(p1)}

\* C10: the tiling of any segment, however short, holds the cell of p1 and
\* the cell of p2 (cells taken as the code takes them, by truncation).
C10_BothEndpoints ==
  pc = "tiled" => (TruncCell(p1) \in points /\ TruncCell(p2) \in points)

(***************************************************************************)
(* _tilepolygon: the tiles inside a polygon of walls, by counting, down    *)
(* each column, the walls a probe of one tile's length crosses.            *)
(***************************************************************************)
ccw(A, B, C) == (C[2] - A[2]) * (B[1] - A[1]) > (B[2] - A[2]) * (C[1] - A[1])

_intersect(A, B, C, D) == ccw(A, C, D) # ccw(B, C, D) /\ ccw(A, B, C) # ccw(A, B, D)

MinOf(S) == CHOOSE m \in S : \A e \in S : m <= e

MaxOf(S) == CHOOSE m \in S : \A e \in S : m >= e

\* the walls the probe of tile (column, y) crosses: the probe runs from
\* (column + offsetx, y + offsety) one stud along y
Crossings(walls, column, y, offsetx, offsety) ==
  Cardinality({i \in 1..Len(walls) :
                 _intersect(<<1000 * column + offsetx, 1000 * y + offsety>>,
                            <<1000 * column + offsetx, 1000 * y + offsety + 1000>>,
                            walls[i][1], walls[i][2])})

\* crosscounter when tile (column, y) is reached: reset at the top of the column
RECURSIVE CrossCounter(_, _, _, _, _, _)
CrossCounter(walls, column, miny, y, offsetx, offsety) ==
  IF y < miny THEN 0
  ELSE CrossCounter(walls, column, miny, y - 1, offsetx, offsety)
         + Crossings(walls, column, y, offsetx, offsety)

\* the list of tiles, column after column
TilePolygonAt(walls, offsetx, offsety) ==
  LET xc == {walls[i][1][1] : i \in 1..Len(walls)} \cup {walls[i][2][1] : i \in 1..Len(walls)}
      yc == {walls[i][1][2] : i \in 1..Len(walls)} \cup {walls[i][2][2] : i \in 1..Len(walls)}
      minx == Trunc(MinOf(xc)) - 2
      miny == Trunc(MinOf(yc)) - 2
      maxx == Trunc(MaxOf(xc)) + 3
      maxy == Trunc(MaxOf(yc)) + 3
      h == maxy - miny
      cells == [k \in 1..((maxx - minx) * h) |-> <<minx + (k - 1) \div h, miny + ((k - 1) % h)>>]
  IN  SelectSeq(cells, LAMBDA t : CrossCounter(walls, t[1], miny, t[2], offsetx, offsety) % 2 = 1)

\* a rasterizer that probes along the left edges of the tiles
TilePolygonAtEdge(walls) == TilePolygonAt(walls, 0, -500)

\* the default offsets: x + 0.5, y - 0.5
_tilepolygon(walls) == TilePolygonAt(walls, 500, -500)

(***************************************************************************)
(* Colours: the palette of _colorparse, the textures as images of one      *)
(* pixel, _matchcolor.                                                     *)
(***************************************************************************)
\* (ID, name, (r, g, b)) of the colour file, as _colorparse returns it
ColorFile ==
  << <<4, "C91A09", <<201, 26, 9>> >>,
     <<1, "0055BF", <<0, 85, 191>> >>,
     <<15, "FFFFFF", <<255, 255, 255>> >> >>

\* the loop of _matchcolor with "diffs <= best": a later colour as near as
\* the best one replaces it
RECURSIVE MatchFromLatest(_, _, _, _)
MatchFromLatest(pal, rgb, best, bestcol) ==
  IF pal = <<>> THEN bestcol
  ELSE LET crgb == Head(pal)[3]
           diffs == Abs(rgb[1] - crgb[1]) + Abs(rgb[2] - crgb[2]) + Abs(rgb[3] - crgb[3])
       IN  IF diffs = 0 THEN Head(pal)[1]
           ELSE IF diffs <= best THEN MatchFromLatest(Tail(pal), rgb, diffs, Head(pal)[1])
           ELSE MatchFromLatest(Tail(pal), rgb, best, bestcol)

\* the loop of _matchcolor over what is left of the palette; bestcol stays
\* "unbound" while no colour was assigned to it
RECURSIVE MatchFrom(_, _, _, _)
MatchFrom(pal, rgb, best, bestcol) ==
  IF pal = <<>> THEN bestcol
  ELSE LET crgb == Head(pal)[3]
           diffs == Abs(rgb[1] - crgb[1]) + Abs(rgb[2] - crgb[2]) + Abs(rgb[3] - crgb[3])
       IN  IF diffs = 0 THEN Head(pal)[1]
           ELSE IF diffs < best THEN MatchFrom(Tail(pal), rgb, diffs, Head(pal)[1])
           ELSE MatchFrom(Tail(pal), rgb, best, bestcol)

\* the nearest palette colour, or with direct the colour itself as a token
_matchcolor(rgb, direct) ==
  IF direct THEN <<"0x2", rgb[1], rgb[2], rgb[3]>>
  ELSE MatchFrom(palette, rgb, 768, "unbound")

FALLBACKBM == "DEFAULT.BM"

\* the texture files of the resources folder and of the level's folder
ResFiles == {"MID", "FLR", FALLBACKBM}

LevFiles == {"TOP", "FLR"}

\* the pixel of a texture file (the images of the model are 1 x 1, so every
\* texture position is pixel (0, 0))
Pixel(file) ==
  CASE file = "MID" -> <<200, 30, 10>>
    [] file = "BOT" -> <<0, 85, 191>>
    [] file = "TOP" -> <<250, 250, 250>>
    [] file = "FLR" -> <<10, 80, 180>>
    [] OTHER -> <<255, 255, 255>>

\* the pixel of a texture file of the level's folder: the file that is in
\* both folders is another image there
LevPixel(file) == IF file = "FLR" THEN <<255, 255, 255>> ELSE Pixel(file)

\* the level's folder is looked into first
TexImageLevFirst(texture) ==
  IF texture \in LevFiles THEN LevPixel(texture)
  ELSE IF texture \in ResFiles THEN Pixel(texture)
  ELSE Pixel(FALLBACKBM)

\* the image of a texture: in the resources folder, else in the level's
\* folder, else the fallback
TexImage(texture) ==
  IF texture \in ResFiles THEN Pixel(texture)
  ELSE IF texture \in LevFiles THEN LevPixel(texture)
  ELSE Pixel(FALLBACKBM)

\* what is printed when the image of a texture is fetched
TexWarning(texture) ==
  IF texture \notin ResFiles /\ texture \notin LevFiles
  THEN << <<"Warning: File", texture, "not found, using fallback BM">> >>
  ELSE <<>>

(***************************************************************************)
(* dfmap: the sectors are sorted, the walls of every sector give plates,   *)
(* then the floors and ceilings of every sector, then brickify packs them. *)
(***************************************************************************)
\* round(v / xyscale, 3) of a level coordinate, in thousandths of a stud
ToStuds(v) == RoundDiv(v * 10, xyscale)

\* round(a / zscale, 3) of an altitude, in thousandths of a stud
ToStudsZ(a) == RoundDiv(a * 100, zscale)

ScalePoint(p) == <<ToStuds(p[1]), ToStuds(p[2])>>

\* the sort key of dfmap: e[10]
SortKey(e) == IF e[11] THEN 1 ELSE 0

\* list.sort(key, reverse): stable, and with reverse equal keys also keep
\* their order
RECURSIVE InsertByKey(_, _, _)
InsertByKey(s, e, reverse) ==
  IF s = <<>> THEN <<e>>
  ELSE IF (IF reverse THEN SortKey(Head(s)) >= SortKey(e) ELSE SortKey(Head(s)) <= SortKey(e))
       THEN <<Head(s)>> \o InsertByKey(Tail(s), e, reverse)
       ELSE <<e>> \o s

RECURSIVE SortSectors(_, _)
SortSectors(s, reverse) ==
  IF s = <<>> THEN <<>>
  ELSE InsertByKey(SortSectors(SubSeq(s, 1, Len(s) - 1), reverse), s[Len(s)], reverse)

\* the rows of the parts file
PartsFile == << <<1, 1, 1, "3024">>, <<2, 1, 1, "3023">> >>

\* lev.sort(...), the colours and parts are loaded, legoplates = []
DfmapSort ==
  /\ pc = "sort"
  /\ lev' = SortSectors(lev, ~prioritylarge)
  /\ palette' = ColorFile
  /\ parts' = _partparse(Uncomment(inf))
  /\ legoplates' = <<>>
  /\ origin' = <<>>
  /\ ctr' = 0
  /\ pc' = "walls"
  /\ UNCHANGED <<level, scid, prioritylarge, generateceilings, directrgb, tileorder, inf, wallVars,
                 targcol, matched, runVars, tileVars, grid, map, assembly, counter, keys>>

RECURSIVE Concat(_)
Concat(ss) == IF ss = <<>> THEN <<>> ELSE Head(ss) \o Concat(Tail(ss))

\* a set of tiles as the list its iteration gives
RECURSIVE Ascending(_)
Ascending(S) ==
  IF S = {} THEN <<>>
  ELSE LET m == CHOOSE t \in S : \A u \in S : t[1] < u[1] \/ (t[1] = u[1] /\ t[2] <= u[2])
       IN  <<m>> \o Ascending(S \ {m})

TileSeq(S) == IF tileorder = "ascending" THEN Ascending(S) ELSE Reverse(Ascending(S))

RECURSIVE StrictlyBelow(_, _)
StrictlyBelow(cur, top) ==
  IF cur < top THEN <<cur>> \o StrictlyBelow(cur + (LEGOPLATEHEIGHT * REDUCTION) \div 10, top)
  ELSE <<>>

\* a height loop that stops before the top
WallHeightsBelowTop(bot, top) == StrictlyBelow(bot, top)

RECURSIVE HeightsFrom(_, _)
HeightsFrom(cur, top) ==
  IF cur <= top THEN <<cur>> \o HeightsFrom(cur + (LEGOPLATEHEIGHT * REDUCTION) \div 10, top)
  ELSE <<>>

\* a height loop that advances by 1.2 plate heights
RECURSIVE CoarseFrom(_, _)
CoarseFrom(cur, top) ==
  IF cur <= top THEN <<cur>> \o CoarseFrom(cur + (LEGOPLATEHEIGHT * 12) \div 10, top)
  ELSE <<>>

WallHeightsCoarse(bot, top) == CoarseFrom(bot, top)

\* curheight = bot; while curheight <= top: ...; curheight += LEGOPLATEHEIGHT * REDUCTION
WallHeights(bot, top) == HeightsFrom(bot, top)

\* the plates of one refined wall
WallPlates(wall) ==
  LET a == ScalePoint(wall[1])
      b == ScalePoint(wall[2])
      bot == ToStudsZ(wall[3])
      top == ToStudsZ(wall[4])
      tiles == TileSeq(_gettiles(a, b))
      legocol == _matchcolor(TexImage(wall[5]), directrgb)
      heights == WallHeights(bot, top)
  IN  Concat([t \in 1..Len(tiles) |->
                [k \in 1..Len(heights) |-> <<tiles[t][1], tiles[t][2], heights[k], legocol>>]])

\* first cycle: one round of 'for ctr, sector in enumerate(lev)', or its end
WallPass ==
  /\ pc = "walls"
  /\ IF ctr >= Len(lev)
     THEN /\ pc' = "floors"
          /\ ctr' = 0
          /\ UNCHANGED <<legoplates, origin, stdout>>
     ELSE LET sector == lev[ctr + 1]
              walls == sector[1]
          IN  /\ pc' = "walls"
              /\ ctr' = ctr + 1
              /\ IF sector[12]
                 THEN UNCHANGED <<legoplates, origin, stdout>>
                 ELSE \E plates \in {[w \in 1..Len(walls) |-> WallPlates(walls[w])]} :
                         /\ stdout' = stdout \o Concat([w \in 1..Len(walls) |->
                                                          TexWarning(walls[w][5])])
                         /\ legoplates' = legoplates \o Concat(plates)
                         /\ origin' = origin \o Concat([w \in 1..Len(walls) |->
                                         [k \in 1..Len(plates[w]) |-> <<"wall", ctr, w>>]])
  /\ UNCHANGED <<prioritylarge, generateceilings, directrgb, tileorder, inf, wallVars, colorVars,
                 isfile, palfile, status, parsed, written, levVars, tileVars, brickVars>>

\* a floor and a ceiling for every tile, whatever the flags
TileKindsUngated(sector) == <<"floor", "ceiling">>

\* what a tile of the sector gets: a floor 'if not openflr', then a ceiling
\* 'if generateceilings and not opensky'
TileKinds(sector) ==
  (IF ~sector[11] THEN <<"floor">> ELSE <<>>)
  \o (IF generateceilings /\ ~sector[10] THEN <<"ceiling">> ELSE <<>>)

\* the floor and the ceiling plate of one tile of a sector
TilePlates(sector, tile) ==
  LET lflr == ToStudsZ(sector[8])
      lceil == ToStudsZ(sector[9])
      kinds == TileKinds(sector)
  IN  [k \in 1..Len(kinds) |->
         IF kinds[k] = "floor"
         THEN <<tile[1], tile[2], lflr, _matchcolor(TexImage(sector[2]), directrgb)>>
         ELSE <<tile[1], tile[2], lceil, _matchcolor(TexImage(sector[5]), directrgb)>>]

TileOrigins(sector, c) ==
  LET kinds == TileKinds(sector)
  IN  [k \in 1..Len(kinds) |-> <<kinds[k], c, 0>>]

\* what the floor and the ceiling of one tile print
TileWarnings(sector) ==
  LET kinds == TileKinds(sector)
  IN  Concat([k \in 1..Len(kinds) |->
                TexWarning(IF kinds[k] = "floor" THEN sector[2] ELSE sector[5])])

\* second cycle: one round of 'for ctr, sector in enumerate(lev)', or its
\* end and the call of brickify
FloorPass ==
  /\ pc = "floors"
  /\ IF ctr >= Len(lev)
     THEN /\ pc' = "brickify"
          /\ grid' = legoplates
          /\ UNCHANGED <<legoplates, origin, ctr, lev, stdout>>
     ELSE LET sector == lev[ctr + 1]
              origwalls == [id \in 1..Len(sector[14]) |->
                              <<ScalePoint(sector[14][id][1]), ScalePoint(sector[14][id][2])>>]
          IN  \E stiles \in {_tilepolygon(origwalls)} :
                 /\ lev' = [lev EXCEPT ![ctr + 1][14] = origwalls]
                 /\ legoplates' = legoplates \o Concat([t \in 1..Len(stiles) |-> TilePlates(sector, stiles[t])])
                 /\ origin' = origin \o Concat([t \in 1..Len(stiles) |-> TileOrigins(sector, ctr)])
                 /\ stdout' = stdout \o Concat([t \in 1..Len(stiles) |-> TileWarnings(sector)])
                 /\ ctr' = ctr + 1
                 /\ pc' = "floors"
                 /\ UNCHANGED grid
  /\ UNCHANGED <<level, scid, prioritylarge, generateceilings, directrgb, tileorder, inf, wallVars,
                 colorVars, isfile, palfile, status, parsed, written,
                 tileVars, parts, map, assembly, counter, keys>>

(***************************************************************************)
(* The levels of the model: a chain of rectangular rooms, each adjoined to *)
(* the next through the wall they share, listed in the file in one of a    *)
(* few orders.                                                             *)
(***************************************************************************)
\* a level has at most MaxRooms rooms
MaxRooms == 3

\* room k: <<left, right, depth>> in hundredths of a DF unit
RoomBox(k) ==
  IF k = 1 THEN <<0, 400, 400>>
  ELSE <<400 + 200 * (k - 2), 400 + 200 * (k - 1), IF k = 2 THEN 400 ELSE 200>>

\* the orders of the sectors in the file: as built, reversed, first two swapped
Orders(n) ==
  {[i \in 1..n |-> i], [i \in 1..n |-> n + 1 - i]}
    \cup (IF n >= 2 THEN {[i \in 1..n |-> IF i = 1 THEN 2 ELSE IF i = 2 THEN 1 ELSE i]} ELSE {})

\* the index of room k in the file
IndexOf(order, k) == (CHOOSE i \in 1..Len(order) : order[i] = k) - 1

AltProfiles == {"open", "step", "overhang", "flat"}

\* <<floor, ceiling>> of room k
RoomAlt(profile, k) ==
  CASE profile = "open" -> <<0, 144>>
    [] profile = "step" -> IF k % 2 = 1 THEN <<0, 144>> ELSE <<72, 144>>
    [] profile = "overhang" -> IF k % 2 = 1 THEN <<0, 144>> ELSE <<0, 72>>
    [] OTHER -> IF k = 1 THEN <<0, 0>> ELSE <<0, 72>>

\* <<the rooms open to the sky, the rooms without floor, the rooms without walls>>
FlagProfiles == {<<{}, {}, {}>>, <<{1}, {1}, {}>>, <<{}, {2}, {2}>>}

RoomWalls(order, k) ==
  LET box == RoomBox(k)
      n == Len(order)
  IN  << RawWall(<<box[1], 0>>, <<box[2], 0>>, -1),
         RawWall(<<box[2], 0>>, <<box[2], box[3]>>, IF k < n THEN IndexOf(order, k + 1) ELSE -1),
         RawWall(<<box[2], box[3]>>, <<box[1], box[3]>>, -1),
         RawWall(<<box[1], box[3]>>, <<box[1], 0>>, IF k > 1 THEN IndexOf(order, k - 1) ELSE -1) >>

Room(order, profile, flags, k) ==
  RawSector(RoomWalls(order, k), RoomAlt(profile, k)[1], RoomAlt(profile, k)[2],
            k \in flags[1], k \in flags[2], k \in flags[3])

DfLevels ==
  {[i \in 1..Len(order) |-> Room(order, profile, flags, order[i])] :
     order \in UNION {Orders(n) : n \in 1..MaxRooms},
     profile \in AltProfiles, flags \in FlagProfiles}

\* <<prioritylarge, generateceilings, the iteration order of tile sets>>
Configs ==
  {<<TRUE, TRUE, "ascending">>, <<FALSE, TRUE, "descending">>,
   <<TRUE, FALSE, "descending">>, <<FALSE, FALSE, "ascending">>}

\* the level file, the palette path derived from it, a palette path given
MapFile == "SECBASE.LEV"

DerivedPal == "SECBASE.PAL"

GivenPal == "OTHER.PAL"

\* dfmap from the call of _levrefine on: the files were found and the level
\* was parsed
Init ==
  /\ NoWall
  /\ inf = PartsFile
  /\ isfile = {MapFile, DerivedPal}
  /\ palfile = DerivedPal
  /\ status = "running"
  /\ stdout = <<>>
  /\ parsed = TRUE
  /\ written = FALSE
  /\ level \in DfLevels
  /\ lev = level
  /\ scid = 0
  /\ pc = "refine"
  /\ \E cf \in Configs :
        prioritylarge = cf[1] /\ generateceilings = cf[2] /\ tileorder = cf[3]
  /\ directrgb = FALSE
  /\ palette = <<>>
  /\ targcol = <<>>
  /\ matched = "none"
  /\ NoSegment
  /\ NoPlates
  /\ NoPacking

Next ==
  \/ Levrefine
  \/ DfmapSort
  \/ WallPass
  \/ FloorPass
  \/ BrickifyBegin
  \/ BrickifyPart
  \/ BrickifyCell

Spec == Init /\ [][Next]_vars

(***************************************************************************)
(* Properties of dfmap.                                                    *)
(***************************************************************************)
\* the area _levrefine attached to a sector
SectorArea(s) == s[13]

AscendingByArea(lv) ==
  \A i, j \in 1..Len(lv) :
     (i < j /\ SectorArea(lv[i]) # SectorArea(lv[j])) => SectorArea(lv[i]) < SectorArea(lv[j])

DescendingByArea(lv) ==
  \A i, j \in 1..Len(lv) :
     (i < j /\ SectorArea(lv[i]) # SectorArea(lv[j])) => SectorArea(lv[i]) > SectorArea(lv[j])

\* C3: in the wall pass and in the floor and ceiling pass, of any two
\* sectors of different area the one processed first is the smaller one, or
\* of any two it is the larger one: the order is by area, in one of the two
\* directions.
C3_AreaOrder ==
  pc \in {"walls", "floors"} => (AscendingByArea(lev) \/ DescendingByArea(lev))

\* the cell of a plate of the plate list
CellOf(p) == <<p[1], p[2], ToPlates(p[3])>>

\* the last plate of the plate list at a cell
LastAt(c) ==
  CHOOSE i \in 1..Len(legoplates) :
     /\ CellOf(legoplates[i]) = c
     /\ \A j \in (i + 1)..Len(legoplates) : CellOf(legoplates[j]) # c

\* brickify has just built its map
MapBuilt == pc = "parts" /\ counter = 0

\* C4: every wall plate is in the plate list before every floor or ceiling
\* plate; and when brickify has built its map, no cell is in it twice, its
\* cells are those of the plates, each cell has the colour of the last plate
\* at it, and a cell at which a floor or ceiling plate lies has the colour
\* of a floor or ceiling plate, not of a wall plate before it.
C4_WallsFirstLastWins ==
  /\ \A i, j \in 1..Len(origin) : (i < j /\ origin[j][1] = "wall") => origin[i][1] = "wall"
  /\ MapBuilt =>
       /\ \A i, j \in 1..Len(map) : i # j => map[i][1] # map[j][1]
       /\ KeySet(map) = {CellOf(legoplates[i]) : i \in 1..Len(legoplates)}
       /\ \A e \in 1..Len(map) : map[e][2] = legoplates[LastAt(map[e][1])][4]
       /\ \A e \in 1..Len(map) :
             (\E i \in 1..Len(legoplates) : CellOf(legoplates[i]) = map[e][1] /\ origin[i][1] # "wall")
               => origin[LastAt(map[e][1])][1] # "wall"

\* the map is built from a plate list in which a wall plate and a later
\* floor plate of another colour lie at the same cell
C4_Witness ==
  /\ MapBuilt
  /\ \E i, j \in 1..Len(legoplates) :
        /\ i < j
        /\ origin[i][1] = "wall"
        /\ origin[j][1] = "floor"
        /\ CellOf(legoplates[i]) = CellOf(legoplates[j])
        /\ legoplates[i][4] # legoplates[j][4]

\* the wall pass is over
WallPassDone == pc = "floors" /\ ctr = 0

\* the refined walls with top = bottom: <<index of the sector, number of the wall>>
DegenerateWalls ==
  {cw \in UNION {{<<c, w>> : w \in 1..Len(lev[c + 1][1])} : c \in 0..(Len(lev) - 1)} :
     lev[cw[1] + 1][1][cw[2]][3] = lev[cw[1] + 1][1][cw[2]][4]}

\* the plates the wall pass appended for a wall
PlatesOfWall(cw) == {i \in 1..Len(origin) : origin[i] = <<"wall", cw[1], cw[2]>>}

\* C8: after the wall pass no plate of the plate list comes from a refined
\* wall whose top altitude equals its bottom altitude.
C8_DegenerateNoPlates ==
  WallPassDone => \A cw \in DegenerateWalls : PlatesOfWall(cw) = {}

\* C8, amended: after the wall pass a refined wall whose top altitude equals
\* its bottom altitude, in a sector that has walls, has given exactly one
\* plate for each tile under its line, at the altitude of the wall.
C8_DegenerateOneLayer ==
  WallPassDone =>
     \A cw \in DegenerateWalls :
        LET sector == lev[cw[1] + 1]
            wall == sector[1][cw[2]]
            tiles == _gettiles(ScalePoint(wall[1]), ScalePoint(wall[2]))
            from == PlatesOfWall(cw)
        IN  ~sector[12] =>
              /\ Cardinality(from) = Cardinality(tiles)
              /\ {<<legoplates[i][1], legoplates[i][2]>> : i \in from} = tiles
              /\ \A i \in from : legoplates[i][3] = ToStudsZ(wall[3])

\* the wall pass is over in a level with a degenerate wall in a sector that
\* has walls
C8_Witness ==
  /\ WallPassDone
  /\ \E cw \in DegenerateWalls : ~lev[cw[1] + 1][12]

(***************************************************************************)
(* _tilepolygon on its own: closed boundaries of one or two loops, at      *)
(* several places, with walls turned around.                               *)
(***************************************************************************)
\* one call of _tilepolygon on the walls of polygon
Tilepolygon ==
  /\ pc = "tilepolygon"
  /\ polytiles' = _tilepolygon(polygon)
  /\ pc' = "polytiled"
  /\ UNCHANGED <<p1, p2, points, polygon, cfgVars, levVars, plateVars, brickVars>>

\* the walls of a loop of corners, each from a corner to the next
LoopWalls(pts) == [i \in 1..Len(pts) |-> <<pts[i], pts[(i % Len(pts)) + 1]>>]

\* a square, an L, a square with a square hole, a diamond (thousandths of a stud)
Shapes ==
  { LoopWalls(<< <<0, 0>>, <<2000, 0>>, <<2000, 2000>>, <<0, 2000>> >>),
    LoopWalls(<< <<0, 0>>, <<3000, 0>>, <<3000, 1000>>, <<1000, 1000>>, <<1000, 3000>>, <<0, 3000>> >>),
    LoopWalls(<< <<0, 0>>, <<3000, 0>>, <<3000, 3000>>, <<0, 3000>> >>)
      \o LoopWalls(<< <<1000, 1000>>, <<2000, 1000>>, <<2000, 2000>>, <<1000, 2000>> >>),
    LoopWalls(<< <<1500, 0>>, <<3000, 1500>>, <<1500, 3000>>, <<0, 1500>> >>) }

\* the shapes are moved by up to QuarterSteps quarters of a stud, and to
\* negative coordinates
QuarterSteps == 3

Shifts == {250 * k : k \in 0..QuarterSteps} \cup {-2500}

MoveWalls(walls, dx, dy) ==
  [i \in 1..Len(walls) |->
     << <<walls[i][1][1] + dx, walls[i][1][2] + dy>>, <<walls[i][2][1] + dx, walls[i][2][2] + dy>> >>]

\* the walls with those of the set turned end for end
TurnWalls(walls, turned) ==
  [i \in 1..Len(walls) |-> IF i \in turned THEN <<walls[i][2], walls[i][1]>> ELSE walls[i]]

\* none turned, one turned, all turned
Turnings(walls) == {{}, 1..Len(walls)} \cup {{k} : k \in 1..Len(walls)}

Polygons ==
  UNION {{TurnWalls(MoveWalls(sh, dx, dy), t) : t \in Turnings(sh)} :
           sh \in Shapes, dx \in Shifts, dy \in Shifts}

InitPoly ==
  /\ pc = "tilepolygon"
  /\ polygon \in Polygons
  /\ polytiles = <<>>
  /\ p1 = <<0, 0>> /\ p2 = <<0, 0>> /\ points = {}
  /\ NoConfig /\ NoLevel /\ NoPlates /\ NoPacking

NextPoly == Tilepolygon

SpecPoly == InitPoly /\ [][NextPoly]_vars

(***************************************************************************)
(* Properties of _tilepolygon.                                             *)
(***************************************************************************)
\* the probe point of a cell: its centre
ProbePoint(cell) == <<1000 * cell[1] + 500, 1000 * cell[2] + 500>>

\* the ray from P towards greater x crosses the wall from C to D
CrossesRay(P, C, D) ==
  /\ (C[2] > P[2]) # (D[2] > P[2])
  /\ LET t == (C[1] - P[1]) * (D[2] - C[2]) + (P[2] - C[2]) * (D[1] - C[1])
     IN  IF D[2] > C[2] THEN t > 0 ELSE t < 0

\* even-odd: the ray crosses an odd number of walls
InsideEvenOdd(P, walls) ==
  Cardinality({i \in 1..Len(walls) : CrossesRay(P, walls[i][1], walls[i][2])}) % 2 = 1

\* P lies on a wall
OnBoundary(P, walls) ==
  \E i \in 1..Len(walls) :
     LET C == walls[i][1]
         D == walls[i][2]
     IN  /\ (D[1] - C[1]) * (P[2] - C[2]) = (D[2] - C[2]) * (P[1] - C[1])
         /\ (C[1] <= P[1] /\ P[1] <= D[1]) \/ (D[1] <= P[1] /\ P[1] <= C[1])
         /\ (C[2] <= P[2] /\ P[2] <= D[2]) \/ (D[2] <= P[2] /\ P[2] <= C[2])

\* the cells around the polygon, three further than its extent
CellsAround(walls) ==
  LET xc == {walls[i][1][1] : i \in 1..Len(walls)} \cup {walls[i][2][1] : i \in 1..Len(walls)}
      yc == {walls[i][1][2] : i \in 1..Len(walls)} \cup {walls[i][2][2] : i \in 1..Len(walls)}
  IN  (((MinOf(xc) \div 1000) - 3)..((MaxOf(xc) \div 1000) + 3))
        \X (((MinOf(yc) \div 1000) - 3)..((MaxOf(yc) \div 1000) + 3))

SetOf(seq) == {seq[i] : i \in 1..Len(seq)}

\* C11: the list _tilepolygon returns has no cell twice, has every cell whose
\* centre is inside the polygon by the even-odd test, and has no cell whose
\* centre is outside it (a centre on a wall is neither).
C11_TilesAreInterior ==
  pc = "polytiled" =>
     /\ \A i, j \in 1..Len(polytiles) : i # j => polytiles[i] # polytiles[j]
     /\ SetOf(polytiles) \subseteq CellsAround(polygon)
     /\ \A cell \in CellsAround(polygon) :
           ~OnBoundary(ProbePoint(cell), polygon) =>
              (cell \in SetOf(polytiles) <=> InsideEvenOdd(ProbePoint(cell), polygon))

\* the tiling of an outer loop with a hole: the cell of the hole is left out,
\* cells around it are returned
C11_Witness ==
  /\ pc = "polytiled"
  /\ Len(polygon) = 8
  /\ \E cell \in SetOf(polytiles) :
        /\ <<cell[1] + 1, cell[2]>> \notin SetOf(polytiles)
        /\ <<cell[1] + 2, cell[2]>> \in SetOf(polytiles)

\* the walls in another order: the first one last
RotateWalls(walls) == Tail(walls) \o <<Head(walls)>>

\* C12: turning any one wall of the polygon end for end, or listing its walls
\* in another order, leaves the set of cells _tilepolygon returns unchanged.
C12_WindingInvariant ==
  pc = "polytiled" =>
     /\ \A k \in 1..Len(polygon) :
           SetOf(_tilepolygon(TurnWalls(polygon, {k}))) = SetOf(polytiles)
     /\ SetOf(_tilepolygon(RotateWalls(polygon))) = SetOf(polytiles)

(***************************************************************************)
(* _matchcolor on its own: the palette is any short list of colours, the   *)
(* triplet any colour over a few channel values.                           *)
(***************************************************************************)
Matchcolor ==
  /\ pc = "matchcolor"
  /\ IF ~directrgb /\ palette = <<>>
       THEN \* "return bestcol" with bestcol never assigned: UnboundLocalError
            /\ matched' = "none"
            /\ pc' = "error"
       ELSE /\ matched' = _matchcolor(targcol, directrgb)
            /\ pc' = "matched"
  /\ UNCHANGED <<prioritylarge, generateceilings, directrgb, tileorder, inf, wallVars, palette, targcol,
                 runVars, levVars, tileVars, plateVars, brickVars>>

MaxPalette == 3

\* the colours a palette is made of: two of them are the same colour under
\* two IDs
PaletteEntries ==
  { <<0, "000000", <<0, 0, 0>> >>,
    <<15, "FFFFFF", <<255, 255, 255>> >>,
    <<7, "000002", <<0, 0, 2>> >>,
    <<3, "020000", <<2, 0, 0>> >>,
    <<9, "000000", <<0, 0, 0>> >> }

Palettes == UNION {[1..n -> PaletteEntries] : n \in 0..MaxPalette}

Channels == {0, 1, 2, 255}

Triplets == {<<r, g, b>> : r \in Channels, g \in Channels, b \in Channels}

InitColor ==
  /\ pc = "matchcolor"
  /\ prioritylarge = TRUE
  /\ generateceilings = TRUE
  /\ tileorder = "ascending"
  /\ directrgb \in BOOLEAN
  /\ palette \in Palettes
  /\ targcol \in Triplets
  /\ matched = "none"
  /\ NoRun
  /\ NoLevel /\ NoSegment /\ NoPlates /\ NoPacking

NextColor == Matchcolor

SpecColor == InitColor /\ [][NextColor]_vars

\* the sum of the absolute differences of the three channels
Miss(entry, rgb) ==
  Abs(rgb[1] - entry[3][1]) + Abs(rgb[2] - entry[3][2]) + Abs(rgb[3] - entry[3][3])

\* the entries of the palette that miss the triplet by the least sum
Nearest(pal, rgb) ==
  {i \in 1..Len(pal) : \A j \in 1..Len(pal) : Miss(pal[i], rgb) <= Miss(pal[j], rgb)}

\* C13: without direct RGB and with a palette that is not empty, _matchcolor
\* returns the ID of the earliest of the palette entries whose sum of absolute
\* channel differences from the triplet is the least; a triplet that is in the
\* palette verbatim gets the ID of its first occurrence.
C13_NearestEarliest ==
  (pc = "matched" /\ ~directrgb /\ palette # <<>>) =>
     /\ \E i \in Nearest(palette, targcol) :
           /\ \A j \in Nearest(palette, targcol) : i <= j
           /\ matched = palette[i][1]
     /\ \A i \in 1..Len(palette) :
           (palette[i][3] = targcol /\ \A j \in 1..(i - 1) : palette[j][3] # targcol)
              => matched = palette[i][1]

\* two entries with different IDs are equally near and nearest, and neither is
\* the triplet itself
C13_Witness ==
  /\ pc = "matched" /\ ~directrgb
  /\ \E i, j \in Nearest(palette, targcol) :
        /\ i < j
        /\ palette[i][1] # palette[j][1]
        /\ Miss(palette[i], targcol) > 0
  /\ \E k \in 1..Len(palette) : k \notin Nearest(palette, targcol)

(***************************************************************************)
(* dfmap: what the flags of a sector let through.                          *)
(***************************************************************************)
\* the plates that came from sector c (its index in the sorted list) in the
\* given way
PlatesFrom(kind, c) ==
  {i \in 1..Len(legoplates) : origin[i][1] = kind /\ origin[i][2] = c}

\* the plates of a set that stand in the cell
AtCell(plates, cell) ==
  {i \in plates : legoplates[i][1] = cell[1] /\ legoplates[i][2] = cell[2]}

\* C14: when both cycles of dfmap are over, a sector with the no-walls flag
\* has given no wall plate; every interior cell of a sector has exactly one
\* floor plate of that sector when its no-floor flag is clear and none when it
\* is set, exactly one ceiling plate when ceilings are requested and its
\* open-sky flag is clear and none otherwise; and no floor or ceiling plate of
\* the sector stands outside its interior cells.
C14_FlagsGatePlates ==
  pc = "brickify" =>
    \A c \in 0..(Len(lev) - 1) :
      LET sector == lev[c + 1]
          interior == SetOf(_tilepolygon(sector[14]))
          floors == PlatesFrom("floor", c)
          ceilings == PlatesFrom("ceiling", c)
      IN  /\ sector[12] => PlatesFrom("wall", c) = {}
          /\ \A cell \in interior :
                /\ Cardinality(AtCell(floors, cell)) = IF ~sector[11] THEN 1 ELSE 0
                /\ Cardinality(AtCell(ceilings, cell))
                     = IF generateceilings /\ ~sector[10] THEN 1 ELSE 0
          /\ \A i \in floors \cup ceilings :
                <<legoplates[i][1], legoplates[i][2]>> \in interior

\* a level with a sector without walls and without floor that has interior
\* cells and gets ceilings, and another sector that gives wall and floor
\* plates
C14_Witness ==
  /\ pc = "brickify"
  /\ generateceilings
  /\ \E c, d \in 0..(Len(lev) - 1) :
        /\ lev[c + 1][12] /\ lev[c + 1][11] /\ ~lev[c + 1][10]
        /\ lev[c + 1][1] # <<>>
        /\ PlatesFrom("ceiling", c) # {}
        /\ PlatesFrom("wall", d) # {}
        /\ PlatesFrom("floor", d) # {}

(***************************************************************************)
(* dfmap from its first line to the written file.                          *)
(***************************************************************************)
\* only the level file is looked for
FatalInputMapOnly == MapFile \notin isfile

\* the two checks that end the run: 'if not os.path.isfile(mapfile)', and
\* 'if not palfile' with 'if not os.path.isfile(palfile)' on the derived path
FatalInput ==
  \/ MapFile \notin isfile
  \/ palfile = "" /\ DerivedPal \notin isfile

\* the checks, the defaults and the call of _levparse
DfmapBegin ==
  /\ pc = "start"
  /\ IF FatalInput
     THEN /\ stdout' = Append(stdout, IF MapFile \notin isfile
                                      THEN <<"Missing map file:", MapFile>>
                                      ELSE <<"Could not locate PAL file:", DerivedPal>>)
          /\ status' = "exit 1"
          /\ pc' = "exit"
          /\ UNCHANGED <<palfile, parsed, lev>>
     ELSE /\ palfile' = IF palfile = "" THEN DerivedPal ELSE palfile
          /\ lev' = level
          /\ parsed' = TRUE
          /\ pc' = "refine"
          /\ UNCHANGED <<stdout, status>>
  /\ UNCHANGED <<prioritylarge, generateceilings, directrgb, tileorder, inf, wallVars, colorVars,
                 isfile, written, level, scid, tileVars, plateVars, brickVars>>

\* after brickify: the parts are scaled and formatted and the file is written
DfmapWrite ==
  /\ pc = "done"
  /\ parsed
  /\ written' = TRUE
  /\ status' = "returned"
  /\ pc' = "finished"
  /\ UNCHANGED <<prioritylarge, generateceilings, directrgb, tileorder, inf, wallVars, colorVars,
                 isfile, palfile, stdout, parsed, levVars, tileVars, plateVars, brickVars>>

\* the levels of one room
RunLevels == {l \in DfLevels : Len(l) = 1}

InitRun ==
  /\ pc = "start"
  /\ NoWall
  /\ inf = PartsFile
  /\ isfile \in SUBSET {MapFile, DerivedPal, GivenPal}
  /\ palfile \in {"", GivenPal}
  /\ status = "running"
  /\ stdout = <<>>
  /\ parsed = FALSE
  /\ written = FALSE
  /\ level \in RunLevels
  /\ lev = <<>>
  /\ scid = 0
  /\ \E cf \in Configs :
        prioritylarge = cf[1] /\ generateceilings = cf[2] /\ tileorder = cf[3]
  /\ directrgb = FALSE
  /\ palette = <<>>
  /\ targcol = <<>>
  /\ matched = "none"
  /\ NoSegment
  /\ NoPlates
  /\ NoPacking

NextRun == DfmapBegin \/ Next \/ DfmapWrite

SpecRun == InitRun /\ [][NextRun]_vars

\* C15: once dfmap has made its checks, if the level file does not exist, or
\* no palette path is given and the derived palette path does not exist, the
\* process has exited with status 1, _levparse was never called and no output
\* file was written.  (A palette path that was not given is "" or, once dfmap
\* has filled it in, the derived path.)
C15_FatalInputErrors ==
  (pc # "start"
     /\ (MapFile \notin isfile \/ (palfile # GivenPal /\ DerivedPal \notin isfile)))
     => /\ status = "exit 1"
        /\ pc = "exit"
        /\ ~parsed
        /\ lev = <<>>
        /\ ~written

\* the level file exists, no palette path is given and the derived one does
\* not exist
C15_Witness ==
  /\ pc = "exit"
  /\ MapFile \in isfile
  /\ palfile = ""
  /\ DerivedPal \notin isfile
  /\ GivenPal \in isfile

\* a run with a palette path given goes through to the written file
C15_Completes ==
  /\ pc = "finished"
  /\ written
  /\ palfile = GivenPal
  /\ DerivedPal \notin isfile

(***************************************************************************)
(* dfmap: the textures that are not found.                                 *)
(***************************************************************************)
\* the texture reference plate i was coloured from
TextureOf(i) ==
  LET sector == lev[origin[i][2] + 1]
  IN  CASE origin[i][1] = "wall" -> sector[1][origin[i][3]][5]
        [] origin[i][1] = "floor" -> sector[2]
        [] OTHER -> sector[5]

\* in neither folder
Missing(texture) == texture \notin ResFiles /\ texture \notin LevFiles

\* the number of plates a refined wall gives whatever its texture: one for
\* every tile and height
WallPlateCount(wall) ==
  Cardinality(_gettiles(ScalePoint(wall[1]), ScalePoint(wall[2])))
    * Len(WallHeights(ToStudsZ(wall[3]), ToStudsZ(wall[4])))

\* C16: when both cycles of dfmap are over, the process is still running;
\* every plate whose texture is in neither folder has the colour of the
\* fallback texture and a warning with the name of that texture was printed;
\* a plate whose texture is in the resources folder has the colour of that
\* file even when the level's folder has a file of the same name, and only
\* otherwise the colour of the file of the level's folder; every wall gave
\* its plate for every tile and height and every interior cell its ceiling,
\* found or not; and no warning names a texture that was found.
C16_MissingTextureNotFatal ==
  pc = "brickify" =>
    /\ status = "running"
    /\ \A i \in 1..Len(legoplates) :
          LET t == TextureOf(i)
          IN  /\ Missing(t) =>
                   /\ legoplates[i][4] = _matchcolor(Pixel(FALLBACKBM), directrgb)
                   /\ \E k \in 1..Len(stdout) :
                         stdout[k][1] = "Warning: File" /\ stdout[k][2] = t
              /\ t \in ResFiles => legoplates[i][4] = _matchcolor(Pixel(t), directrgb)
              /\ (t \notin ResFiles /\ t \in LevFiles) =>
                   legoplates[i][4] = _matchcolor(LevPixel(t), directrgb)
    /\ \A c \in 0..(Len(lev) - 1) :
          LET sector == lev[c + 1]
          IN  /\ ~sector[12] =>
                   \A w \in 1..Len(sector[1]) :
                      Cardinality({i \in PlatesFrom("wall", c) : origin[i][3] = w})
                        = WallPlateCount(sector[1][w])
              /\ (generateceilings /\ ~sector[10]) =>
                   \A cell \in SetOf(_tilepolygon(sector[14])) :
                      AtCell(PlatesFrom("ceiling", c), cell) # {}
    /\ \A k \in 1..Len(stdout) : Missing(stdout[k][2])

\* a wall plate and a ceiling plate whose textures are in neither folder, and
\* a floor plate whose texture is in both
C16_Witness ==
  /\ pc = "brickify"
  /\ \E i, j, k \in 1..Len(legoplates) :
        /\ origin[i][1] = "wall" /\ Missing(TextureOf(i))
        /\ origin[j][1] = "ceiling" /\ Missing(TextureOf(j))
        /\ origin[k][1] = "floor" /\ TextureOf(k) \in ResFiles \cap LevFiles

(***************************************************************************)
(* _partparse on its own: the catalog file is a short list of lines, each  *)
(* a row of width, length, height and file name, or a comment.             *)
(***************************************************************************)
Partparse ==
  /\ pc = "partparse"
  /\ parts' = _partparse(Uncomment(inf))
  /\ pc' = "partsparsed"
  /\ UNCHANGED <<cfgVars, levVars, tileVars, plateVars, grid, map, assembly, counter, keys>>

MaxRows == 3

PartNames == [x \in 1..2 |-> [y \in 1..2 |-> [z \in {1, 3} |->
  IF z = 1
  THEN (IF x = 1 /\ y = 1 THEN "3024" ELSE IF x = 2 /\ y = 2 THEN "3022" ELSE "3023")
  ELSE (IF x = 1 /\ y = 1 THEN "3005" ELSE IF x = 2 /\ y = 2 THEN "3003" ELSE "3004")]]]

FileLines ==
  {<<x, y, z, PartNames[x][y][z]>> : x \in 1..2, y \in 1..2, z \in {1, 3}} \cup {<<"#">>}

CatalogFiles == UNION {[1..n -> FileLines] : n \in 0..MaxRows}

InitParts ==
  /\ pc = "partparse"
  /\ inf \in CatalogFiles
  /\ NoWall
  /\ isfile = {} /\ palfile = "" /\ status = "running" /\ stdout = <<>>
  /\ parsed = FALSE /\ written = FALSE
  /\ prioritylarge = TRUE /\ generateceilings = TRUE /\ directrgb = FALSE
  /\ tileorder = "ascending"
  /\ palette = <<>> /\ targcol = <<>> /\ matched = "none"
  /\ NoLevel /\ NoSegment /\ NoPlates /\ NoPacking

NextParts == Partparse

SpecParts == InitParts /\ [][NextParts]_vars

\* how many times e is in the list
RECURSIVE Count(_, _)
Count(s, e) == IF s = <<>> THEN 0 ELSE (IF Head(s) = e THEN 1 ELSE 0) + Count(Tail(s), e)

Turned(r) == <<r[2], r[1], r[3], r[4]>>

\* entry e comes no later than f: higher, or as high and longer in the second
\* dimension, or equal in both and at least as long in the first
NoLater(e, f) ==
  \/ e[3] > f[3]
  \/ e[3] = f[3] /\ e[2] > f[2]
  \/ e[3] = f[3] /\ e[2] = f[2] /\ e[1] >= f[1]

\* C17: the list _partparse returns holds every row of the file that is not a
\* comment as often as the file does, and every row that is not square as
\* often again turned by 90 degrees, and nothing else; it is in descending
\* order of height, then of the second dimension, then of the first; so when
\* the file has a 1 x 1 x 1 row, the last entry is 1 x 1 x 1.
C17_CatalogOrder ==
  pc = "partsparsed" =>
    LET rows == Uncomment(inf)
        square == SelectSeq(rows, LAMBDA r : r[1] = r[2])
        oblong == SelectSeq(rows, LAMBDA r : r[1] # r[2])
    IN  /\ Len(parts) = Len(square) + 2 * Len(oblong)
        /\ \A i \in 1..Len(parts) :
              Count(parts, parts[i])
                = Count(rows, parts[i]) + Count(oblong, Turned(parts[i]))
        /\ \A i \in 1..Len(rows) :
              /\ \E k \in 1..Len(parts) : parts[k] = rows[i]
              /\ \E k \in 1..Len(parts) : parts[k] = Turned(rows[i])
        /\ \A i, j \in 1..Len(parts) : i < j => NoLater(parts[i], parts[j])
        /\ (\E i \in 1..Len(rows) : rows[i][1] = 1 /\ rows[i][2] = 1 /\ rows[i][3] = 1)
              => /\ parts[Len(parts)][1] = 1
                 /\ parts[Len(parts)][2] = 1
                 /\ parts[Len(parts)][3] = 1

\* a file whose first line is the 1 x 1 x 1 row, followed by a row that is
\* not square and a brick
C17_Witness ==
  /\ pc = "partsparsed"
  /\ Len(inf) >= 3
  /\ inf[1] = <<1, 1, 1, "3024">>
  /\ \E i, j \in 2..Len(inf) : /\ Len(inf[i]) = 4 /\ inf[i][1] # inf[i][2]
                               /\ Len(inf[j]) = 4 /\ inf[j][3] = 3

(***************************************************************************)
(* brickify: the loop never goes back.                                     *)
(***************************************************************************)
\* C18: in every step of the packing loop the cells of the map after the step
\* are cells of the map before it, with their colours; the assembly after the
\* step is the assembly before it, or that with one part appended; and the
\* map loses cells exactly when a part is appended, the cells lost being the
\* whole footprint of that part, all of which were in the map before the step.
C18_NoBacktracking ==
  [][(pc \in {"parts", "cells"}) =>
       /\ KeySet(map') \subseteq KeySet(map)
       /\ \A c \in KeySet(map') : Get(map', c) = Get(map, c)
       /\ Len(assembly') \in {Len(assembly), Len(assembly) + 1}
       /\ SubSeq(assembly', 1, Len(assembly)) = assembly
       /\ (KeySet(map') # KeySet(map)) <=> (assembly' # assembly)
       /\ assembly' # assembly =>
            LET a == assembly'[Len(assembly')]
            IN  /\ Footprint(a) \subseteq KeySet(map)
                /\ KeySet(map) \ KeySet(map') = Footprint(a)]_vars

\* two parts were placed, one of them of several cells, none of their cells
\* is in the map any more and the map still has cells
C18_Witness ==
  /\ pc = "cells"
  /\ Len(assembly) >= 2
  /\ \E i \in 1..Len(assembly) : Cardinality(Footprint(assembly[i])) >= 2
  /\ \A i \in 1..Len(assembly) : Footprint(assembly[i]) \cap KeySet(map) = {}
  /\ map # <<>>
  /\ keys # <<>>

(***************************************************************************)
(* dfmap on one room of 4 by 4 studs, 3 plates high: 8 by 8 DF units at 2  *)
(* units to the stud, the ceiling 2.16 units above the floor at 1.8 units  *)
(* to the stud.  The four walls are not adjoined; the floor texture gives  *)
(* colour 1, the wall texture colour 4.                                    *)
(***************************************************************************)
SceneLevel ==
  << RawSector(<< RawWall(<<0, 0>>, <<800, 0>>, -1),
                  RawWall(<<800, 0>>, <<800, 800>>, -1),
                  RawWall(<<800, 800>>, <<0, 800>>, -1),
                  RawWall(<<0, 800>>, <<0, 0>>, -1) >>,
               0, 216, FALSE, FALSE, FALSE) >>

\* a 4 x 4 plate and a 1 x 1 x 3 brick, alone or with the 1 x 1 plate
SceneCatalogs ==
  { << <<4, 4, 1, "3031">>, <<1, 1, 3, "3005">> >>,
    << <<4, 4, 1, "3031">>, <<1, 1, 3, "3005">>, <<1, 1, 1, "3024">> >> }

InitScene ==
  /\ NoWall
  /\ inf \in SceneCatalogs
  /\ isfile = {MapFile, DerivedPal}
  /\ palfile = DerivedPal
  /\ status = "running"
  /\ stdout = <<>>
  /\ parsed = TRUE
  /\ written = FALSE
  /\ level = SceneLevel
  /\ lev = level
  /\ scid = 0
  /\ pc = "refine"
  /\ prioritylarge \in BOOLEAN
  /\ generateceilings \in BOOLEAN
  /\ tileorder \in {"ascending", "descending"}
  /\ directrgb = FALSE
  /\ palette = <<>>
  /\ targcol = <<>>
  /\ matched = "none"
  /\ NoSegment
  /\ NoPlates
  /\ NoPacking

SpecScene == InitScene /\ [][Next]_vars

\* the catalog of the room is the plate and the brick alone
TwoRowCatalog == Len(inf) = 2

\* the placed parts with the given file name and colour
PlacedAs(dat, color) == {i \in 1..Len(assembly) : assembly[i][4] = dat /\ assembly[i][5] = color}

\* the wall cells that are not floor cells: the far column and row
OuterWallCells == {<<x, y>> : x \in 0..4, y \in 0..4} \ {<<x, y>> : x \in 0..3, y \in 0..3}

\* the wall cells that are floor cells as well
InnerWallCells == {<<x, y>> \in {<<u, v>> : u \in 0..3, v \in 0..3} : x = 0 \/ y = 0}

FloatWallHeights(bot, top) ==
  LET exact == WallHeights(bot, top)
  IN  {exact} \cup
        (IF Len(exact) > 1 /\ exact[Len(exact)] = top
         THEN {SubSeq(exact, 1, Len(exact) - 1)} ELSE {})

\* the levels round(h / pltheight) can give
FloatPlates(h) ==
  IF h % LEGOPLATEHEIGHT = LEGOPLATEHEIGHT \div 2
  THEN {h \div LEGOPLATEHEIGHT, h \div LEGOPLATEHEIGHT + 1}
  ELSE {ToPlates(h)}

\* the lists of levels a list of heights can give
RECURSIVE FloatLevels(_)
FloatLevels(hs) ==
  IF hs = <<>> THEN {<<>>}
  ELSE {<<l>> \o rest : l \in FloatPlates(Head(hs)), rest \in FloatLevels(Tail(hs))}

\* the wall pass over one tile of a wall from pbot to ptop
WallColumn ==
  /\ pc = "column"
  /\ \E heights \in FloatWallHeights(ToStudsZ(pbot), ToStudsZ(ptop)) :
        legoplates' = [k \in 1..Len(heights) |-> <<0, 0, heights[k], 4>>]
  /\ pc' = "rounding"
  /\ UNCHANGED <<origin, ctr, cfgVars, levVars, tileVars, brickVars>>

\* grid = [(x, y, round(h / pltheight), color) for x, y, h, color in grid]
RoundColumn ==
  /\ pc = "rounding"
  /\ \E levels \in FloatLevels([k \in 1..Len(legoplates) |-> legoplates[k][3]]) :
        grid' = [k \in 1..Len(legoplates) |->
                   <<legoplates[k][1], legoplates[k][2], levels[k], legoplates[k][4]>>]
  /\ pc' = "ladder"
  /\ UNCHANGED <<parts, map, assembly, counter, keys, cfgVars, levVars, tileVars, plateVars>>

\* a wall is at most MaxRise plates high
MaxRise == 5

\* altitudes in hundredths of a DF unit, every 0.04 of a unit; a plate is
\* 0.72 of a unit at 1.8 units to the stud
Bottoms == {a \in -144..144 : a % 4 = 0}

Rises == {4 * j : j \in 0..(18 * MaxRise)}

InitLadder ==
  /\ pc = "column"
  /\ pbot \in Bottoms
  /\ \E rise \in Rises : ptop = pbot + rise
  /\ inf = <<>>
  /\ isfile = {} /\ palfile = "" /\ status = "running" /\ stdout = <<>>
  /\ parsed = FALSE /\ written = FALSE
  /\ prioritylarge = TRUE /\ generateceilings = TRUE /\ directrgb = FALSE
  /\ tileorder = "ascending"
  /\ palette = <<>> /\ targcol = <<>> /\ matched = "none"
  /\ NoLevel /\ NoSegment /\ NoPlates /\ NoPacking

NextLadder == WallColumn \/ RoundColumn

SpecLadder == InitLadder /\ [][NextLadder]_vars

\* C20: the levels of the plates of one column of a wall, in the order they
\* were sampled, begin at a level the wall's bottom rounds to, and each next
\* one is the level before it or the level above that: no level between the
\* lowest and the highest is left out.
C20_NoLaddering ==
  pc = "ladder" =>
    /\ Len(grid) >= 1
    /\ grid[1][3] \in FloatPlates(ToStudsZ(pbot))
    /\ \A k \in 1..(Len(grid) - 1) : grid[k + 1][3] - grid[k][3] \in {0, 1}
    /\ {grid[k][3] : k \in 1..Len(grid)} = grid[1][3]..grid[Len(grid)][3]

\* a column of four levels or more in which two heights fell on one level
\* and one height lay exactly between two levels
C20_Witness ==
  /\ pc = "ladder"
  /\ grid[Len(grid)][3] - grid[1][3] >= 3
  /\ \E k \in 1..(Len(grid) - 1) : grid[k + 1][3] = grid[k][3]
  /\ \E k \in 1..Len(legoplates) : FloatPlates(legoplates[k][3]) # {ToPlates(legoplates[k][3])}
  /\ ToStudsZ(pbot) % LEGOPLATEHEIGHT # 0

(***************************************************************************)
(* brickify: a pass leaves nothing its part could cover.                   *)
(***************************************************************************)
\* the number of catalog parts whose pass over the map is finished
PassesDone == IF pc = "cells" THEN counter - 1 ELSE counter

\* catalog part i fits at the cell: every cell of its footprint from there is
\* in the map with the colour of the cell
FitsAt(i, cell) ==
  \A c \in Coords(cell[1], cell[2], cell[3], parts[i][1], parts[i][2], parts[i][3]) :
     c \in KeySet(map) /\ Get(map, c) = Get(map, cell)

\* the place in the catalog of the entry a placed part was made from
CatalogIndex(a) ==
  CHOOSE i \in 1..Len(parts) : parts[i][4] = a[4] /\ (parts[i][2] > parts[i][1]) = a[6]

\* C21: while brickify packs and when it has returned, no catalog part whose
\* pass is finished fits at any cell left in the map; every placed part was
\* made from a catalog entry whose pass has begun, and the assembly lists the
\* parts in the order of their catalog entries.
C21_PassMaximal ==
  (pc \in {"parts", "cells", "done"}) =>
     /\ \A i \in 1..PassesDone : \A cell \in KeySet(map) : ~FitsAt(i, cell)
     /\ \A j \in 1..Len(assembly) : CatalogIndex(assembly[j]) <= counter
     /\ \A j, k \in 1..Len(assembly) :
           j < k => CatalogIndex(assembly[j]) <= CatalogIndex(assembly[k])

\* the pass of a part of several cells is finished and placed that part, a
\* later pass is under way, and the map still has two cells side by side or
\* one on the other, of two colours
C21_Witness ==
  /\ pc = "cells"
  /\ counter >= 2
  /\ \E j \in 1..Len(assembly) :
        /\ CatalogIndex(assembly[j]) < counter
        /\ Cardinality(Footprint(assembly[j])) >= 2
  /\ \E c, d \in KeySet(map) :
        /\ Get(map, c) # Get(map, d)
        /\ \/ d = <<c[1] + 1, c[2], c[3]>>
           \/ d = <<c[1], c[2] + 1, c[3]>>
           \/ d = <<c[1], c[2], c[3] + 1>>

(***************************************************************************)
(* _levrefine: the altitudes of the refined walls against their sector.    *)
(***************************************************************************)
\* C22: in a level whose ceilings are at or above the floors, every refined
\* wall of a sector has its bottom and its top between the floor and the
\* ceiling of that sector, and when one raw wall gave a step wall and an
\* overhang wall, the step wall ends at or below the bottom of the overhang
\* wall.
C22_WallsWithinSector ==
  CeilingsAboveFloors(level) =>
     \A i \in Refined :
        /\ \A k \in 1..Len(lev[i][1]) :
              /\ lev[i][8] <= lev[i][1][k][3]
              /\ lev[i][1][k][4] <= lev[i][9]
        /\ \A k \in 1..Len(level[i][1]) :
              Len(RefinedOf(i, k)) = 2 => RefinedOf(i, k)[1][4] <= RefinedOf(i, k)[2][3]

\* the second half alone: the step wall and the overhang wall of one raw wall
\* do not overlap
C22_StepBelowOverhang ==
  CeilingsAboveFloors(level) =>
     \A i \in Refined : \A k \in 1..Len(level[i][1]) :
        Len(RefinedOf(i, k)) = 2 => RefinedOf(i, k)[1][4] <= RefinedOf(i, k)[2][3]

====
